---- MODULE Spec2Model ----
(***************************************************************************)
(* State-synchronisation layer of the tank game (src/networking.py).       *)
(*                                                                         *)
(* Host side (ServerNetwork): the accept loop, one ingest session per      *)
(* accepted connection, the broadcast loop and the calls of the render     *)
(* loop (start, shutdown, update_local_state) are separate threads over    *)
(* the shared attributes of one ServerNetwork instance.  threading.Lock    *)
(* is not reentrant; a critical section that contains no blocking call is  *)
(* one action guarded by lock = "free", the broadcast pass (which writes   *)
(* to sockets while holding the lock) keeps the lock across steps.         *)
(*                                                                         *)
(* Python dicts keep insertion order: they are sequences of key/val        *)
(* entries.  JSON values are tagged records, so that float(), isinstance() *)
(* and the truth tests of the code are computed, not assumed.              *)
(***************************************************************************)
EXTENDS Integers, Sequences, FiniteSets, TLC

\* ---------------------------------------------------------------- bounds
MaxConns == 2        \* connections accepted in one host session
MaxFrames == 2       \* lines received by the host in one session
MaxTicks == 1        \* broadcast ticks in one session
MaxClientFrames == 3 \* lines received by the client
MaxWire == 2         \* lines a connection holds before sendall blocks
PaletteLen == 2      \* length of the palette handed to the constructor
MaxStarts == 2       \* start() calls on one host instance that spawn

\* ------------------------------------------------------------- constants
HostId == 0          \* player_id of the host's own tank ("server-host")

\* Tokens uuid.uuid4().hex[:8] yields in one session.
PeerIds == 1..MaxConns

\* The sockets accept() returns in one session, in the order of their accept.
Socks == 1..(MaxConns + 1)

\* The palette: colour i stands for the i-th tuple of the list.
Palette == [i \in 1..PaletteLen |-> i]

\* --------------------------------------------------------- python dicts
DictKeys(d) == [i \in 1..Len(d) |-> d[i].key]

DictKeySet(d) == {d[i].key : i \in 1..Len(d)}

DictHas(d, k) == k \in DictKeySet(d)

DictGet(d, k) == d[CHOOSE i \in 1..Len(d) : d[i].key = k].val

DictValues(d) == [i \in 1..Len(d) |-> d[i].val]

\* d[k] = v: an existing key keeps its place, a new key goes last.
DictSet(d, k, v) ==
    IF DictHas(d, k)
    THEN [i \in 1..Len(d) |-> IF d[i].key = k THEN [key |-> k, val |-> v] ELSE d[i]]
    ELSE Append(d, [key |-> k, val |-> v])

\* d.pop(k, None)
DictPop(d, k) == SelectSeq(d, LAMBDA e : e.key # k)

\* ---------------------------------------------------------- JSON values
JNum(n) == [t |-> "num", n |-> n, l |-> <<>>]
JBool(n) == [t |-> "bool", n |-> n, l |-> <<>>]
JText == [t |-> "str", n |-> 0, l |-> <<>>]          \* "x": text that is no number
JNumText(n) == [t |-> "numstr", n |-> n, l |-> <<>>]  \* "5": text float() parses
JNull == [t |-> "null", n |-> 0, l |-> <<>>]          \* null, or the key is missing
JList(s) == [t |-> "list", n |-> 0, l |-> s]

\* isinstance(v, (int, float)); bool is a subclass of int.
IsNumber(v) == v.t \in {"num", "bool"}

\* float(v) returns (it raises ValueError or TypeError otherwise).
CanFloat(v) == v.t \in {"num", "bool", "numstr"}

FloatOf(v) == v.n

\* ------------------------------------------------- lines a peer can send
BlankLine == [form |-> "blank", type |-> "", position |-> JNull, angle |-> JNull]
BadJson == [form |-> "badjson", type |-> "", position |-> JNull, angle |-> JNull]
NonObject == [form |-> "nonobject", type |-> "", position |-> JNull, angle |-> JNull]
Object(ty, pos, ang) == [form |-> "object", type |-> ty, position |-> pos, angle |-> ang]
Update(pos, ang) == Object("update", pos, ang)

HostFrames ==
    { Update(JList(<<JNum(1), JNum(2)>>), JNum(90)),
      Update(JList(<<JNum(3), JNum(4)>>), JNum(45)),
      Update(JList(<<JNum(1), JNum(2), JNum(3)>>), JNum(90)),
      Update(JList(<<JText, JNum(2)>>), JNum(90)),
      Update(JList(<<JNum(3), JNum(4)>>), JText),
      Object("ping", JNull, JNull),
      NonObject,
      BadJson,
      BlankLine }

\* The update the protocol calls valid: a pair of numbers and a numeric angle.
WellFormedUpdate(f) ==
    /\ f.form = "object" /\ f.type = "update"
    /\ f.position.t = "list" /\ Len(f.position.l) = 2
    /\ \A i \in 1..2 : f.position.l[i].t = "num"
    /\ f.angle.t = "num"

\* An update whose position is a list that does not hold exactly 2 elements.
WrongArityUpdate(f) ==
    /\ f.form = "object" /\ f.type = "update"
    /\ f.position.t = "list" /\ Len(f.position.l) # 2

\* ------------------------------------------------------------ host state
VARIABLES
    running,        \* self._running
    lsock,          \* self._socket: "none", "open", "closed"
    lock,           \* self._lock: "free", or the thread holding it
    color_index,    \* self._color_index
    connections,    \* self._connections: dict player_id -> ClientRecord
    remote_states,  \* self._remote_states: dict player_id -> TankSnapshot
    local_state,    \* self._local_state: <<>> (None) or <<snapshot>>
    csock,          \* each socket accept() returns: "none", "open", "closed"
    peerGone,       \* the peer has closed its end of the connection
    out,            \* messages the host has written to each connection, in order
    a_pc, a_id, a_color,            \* accept loop: position, player_id, color
    a_sock,         \* accept loop: client_sock (0: none yet)
    b_pc, b_msg, b_dead,    \* broadcast loop: position, message, dead_clients
    s_pc, s_buf,    \* ingest session of a connection: position, buffered lines
    s_id,           \* ingest session: its player_id argument (0: not spawned)
    s_sock,         \* ingest session: sock = client.socket (0: not read yet)
    allocs,         \* the index each call of _next_color has read, in order
    sd_pc,          \* shutdown(): "idle", or "lock" (waiting for the lock)
    ticks, nrecv,   \* ticks started and lines received so far
    assigned,       \* the color in the assign message written to a connection (0: none)
    lastValid,      \* pose of the last well-formed update a session handled
    arity           \* "dropped": the session's last line was an update of wrong arity;
                    \* "recovered": a well-formed update was stored right after one

hostvars == <<running, lsock, lock, color_index, connections, remote_states,
              local_state, csock, peerGone, out, a_pc, a_id, a_color, a_sock,
              b_pc, b_msg, b_dead, s_pc, s_buf, s_id, s_sock, allocs, sd_pc,
              ticks, nrecv, assigned, lastValid, arity>>

\* The state of one peer client (ClientNetwork).
VARIABLES
    c_socket,       \* self.socket: "none" (None) or "open"
    c_running,      \* self._running
    c_buffer,       \* self._buffer: complete lines not yet read
    c_remote,       \* self._remote_states
    c_lock,         \* self._lock: "free" or "receiver"
    c_player_id,    \* self.player_id (0: None)
    c_color,        \* self.assigned_color (<<>>: None)
    c_conn,         \* connect(): "idle", or "handshake" (reading the first message)
    c_pc,           \* receive loop: "none", "loop", "apply", "exit", "died"
    c_tanks,        \* receive loop: tanks of the state message being applied
    c_i,            \* receive loop: entries of tanks handled so far
    c_updated,      \* receive loop: the local dict updated
    c_gone,         \* the host has closed the connection
    c_nrecv,        \* lines received so far
    c_view,         \* what the last get_remote_states() returned
    c_fresh,        \* no state message was applied since that call
    c_last,         \* tanks of the last state message applied
    c_sent          \* the tables built from the state messages applied

clientvars == <<c_socket, c_running, c_buffer, c_remote, c_lock, c_player_id,
                c_color, c_conn, c_pc, c_tanks, c_i, c_updated, c_gone, c_nrecv,
                c_view, c_fresh, c_last, c_sent>>

\* The connections between a host and two peer clients A and B.
VARIABLES
    toHost,         \* lines A has written that session A has not received
    toClient,       \* lines the host has written to B that B has not received
    e_sent          \* A has called send_snapshot

linkvars == <<toHost, toClient, e_sent>>

\* The loops of the earlier runs of a host that has been started again.
VARIABLES
    prior           \* per earlier start(): its accept and broadcast thread

restartvars == <<prior>>

RestartInit == prior = <<>>

\* Nothing is in flight.
LinkInit == toHost = <<>> /\ toClient = <<>> /\ e_sent = FALSE

TankSnapshot(id, pos, ang, col) ==
    [player_id |-> id, position |-> pos, angle |-> ang, color |-> col]

ClientRecord(sock, col) == [socket |-> sock, color |-> col]

DefaultPose == [position |-> <<0, 0>>, angle |-> 0]

HostInit ==
    /\ running = FALSE
    /\ lsock = "none"
    /\ lock = "free"
    /\ color_index = 0
    /\ connections = <<>>
    /\ remote_states = <<>>
    /\ local_state = <<>>
    /\ csock = [c \in Socks |-> "none"]
    /\ peerGone = [c \in Socks |-> FALSE]
    /\ out = [c \in Socks |-> <<>>]
    /\ a_pc = "none" /\ a_id = 0 /\ a_color = 0 /\ a_sock = 0
    /\ b_pc = "none" /\ b_msg = <<>> /\ b_dead = <<>>
    /\ s_pc = [c \in Socks |-> "none"]
    /\ s_buf = [c \in Socks |-> <<>>]
    /\ s_id = [c \in Socks |-> 0]
    /\ s_sock = [c \in Socks |-> 0]
    /\ allocs = <<>>
    /\ sd_pc = "idle"
    /\ ticks = 0 /\ nrecv = 0
    /\ assigned = [c \in Socks |-> 0]
    /\ lastValid = [c \in Socks |-> DefaultPose]
    /\ arity = [c \in Socks |-> "none"]

\* ------------------------------------------------------- shared helpers
\* _next_color: the color read; the caller adds 1 to color_index.
NextColor(idx) == Palette[(idx % Len(Palette)) + 1]

\* sendall() on the socket of connection p: it raises OSError on a socket
\* closed here, and may or may not raise once the peer has gone.
WriteOutcomes(c) ==
    IF csock[c] # "open" THEN {FALSE}
    ELSE IF peerGone[c] THEN {TRUE, FALSE}
    ELSE {TRUE}

\* The body of _remove_client, run with the lock: pop both dicts.
RemovedConnections(conns, p) == DictPop(conns, p)

\* The cleanup that forgets the table: only the registry entry is popped.
RemovedStates_Kept(states, p) == states

RemovedStates(states, p) == DictPop(states, p)

\* if record: record.socket.close()
ClosedSockets(conns, socks, p) ==
    IF DictHas(conns, p)
    THEN [socks EXCEPT ![DictGet(conns, p).socket] = "closed"]
    ELSE socks

\* _remove_client(p), called by a thread that does not hold the lock.
RemoveClient(p) ==
    /\ lock = "free"
    /\ connections' = RemovedConnections(connections, p)
    /\ remote_states' = RemovedStates(remote_states, p)
    /\ csock' = ClosedSockets(connections, csock, p)

\* ------------------------------------------------ start() and shutdown()
\* start(): a no-op while running.  The render loop calls it once per
\* instance (src/main.py), which a_pc = "none" states, and not while its
\* own call of shutdown() is waiting for the lock.  A start() that follows
\* a shutdown() is Restart.
Start ==
    /\ ~running
    /\ a_pc = "none"
    /\ sd_pc = "idle"
    /\ running' = TRUE
    /\ lsock' = "open"
    /\ a_pc' = "accept"
    /\ b_pc' = "head"
    /\ UNCHANGED <<lock, color_index, connections, remote_states, local_state,
                   csock, peerGone, out, a_id, a_color, b_msg, b_dead,
                   s_pc, s_buf, sd_pc, ticks, nrecv, assigned,
                   lastValid, arity>>
    /\ UNCHANGED <<a_sock, s_id, s_sock, allocs>>
    /\ UNCHANGED clientvars
    /\ UNCHANGED restartvars
    /\ UNCHANGED linkvars

\* shutdown(), up to the lock: the flag is cleared, the listening socket closed.
ShutdownBegin ==
    /\ sd_pc = "idle"
    /\ running' = FALSE
    /\ lsock' = IF lsock = "none" THEN "none" ELSE "closed"
    /\ sd_pc' = "lock"
    /\ UNCHANGED <<lock, color_index, connections, remote_states, local_state,
                   csock, peerGone, out, a_pc, a_id, a_color, b_pc, b_msg,
                   b_dead, s_pc, s_buf, ticks, nrecv, 
                   assigned, lastValid, arity>>
    /\ UNCHANGED <<a_sock, s_id, s_sock, allocs>>
    /\ UNCHANGED clientvars
    /\ UNCHANGED restartvars
    /\ UNCHANGED linkvars

\* shutdown(), with the lock: every registered socket closed, the registry cleared.
ShutdownLocked ==
    /\ sd_pc = "lock"
    /\ lock = "free"
    /\ csock' = [c \in Socks |->
                   IF \E i \in 1..Len(connections) : connections[i].val.socket = c
                   THEN "closed" ELSE csock[c]]
    /\ connections' = <<>>
    /\ sd_pc' = "idle"
    /\ UNCHANGED <<running, lsock, lock, color_index, remote_states, local_state,
                   peerGone, out, a_pc, a_id, a_color, b_pc, b_msg, 
                   b_dead, s_pc, s_buf, ticks, nrecv, assigned,
                   lastValid, arity>>
    /\ UNCHANGED <<a_sock, s_id, s_sock, allocs>>
    /\ UNCHANGED clientvars
    /\ UNCHANGED restartvars
    /\ UNCHANGED linkvars

\* update_local_state(): the render loop stores the host's own snapshot.
UpdateLocalState ==
    /\ lock = "free"
    /\ local_state' = <<TankSnapshot(HostId, <<7, 7>>, 0, Palette[1])>>
    /\ UNCHANGED <<running, lsock, lock, color_index, connections, remote_states,
                   csock, peerGone, out, a_pc, a_id, a_color, b_pc, b_msg,
                   b_dead, s_pc, s_buf, sd_pc, ticks, nrecv, 
                   assigned, lastValid, arity>>
    /\ UNCHANGED <<a_sock, s_id, s_sock, allocs>>
    /\ UNCHANGED clientvars
    /\ UNCHANGED restartvars
    /\ UNCHANGED linkvars

\* The peer's process closes its end of the connection.
PeerClose(c) ==
    /\ csock[c] # "none"
    /\ ~peerGone[c]
    /\ peerGone' = [peerGone EXCEPT ![c] = TRUE]
    /\ UNCHANGED <<running, lsock, lock, color_index, connections, remote_states,
                   local_state, csock, out, a_pc, a_id, a_color, b_pc, b_msg,
                   b_dead, s_pc, s_buf, sd_pc, ticks, nrecv, 
                   assigned, lastValid, arity>>
    /\ UNCHANGED <<a_sock, s_id, s_sock, allocs>>
    /\ UNCHANGED clientvars
    /\ UNCHANGED restartvars
    /\ UNCHANGED linkvars

\* ------------------------------------------------------------ accept loop
\* player_id = uuid.uuid4().hex[:8]: a random token.  Tokens are opaque and
\* interchangeable, so the n-th token drawn in a session is named n; 0 when
\* the session has drawn MaxConns tokens.
NewToken(socks) ==
    LET used == {c \in Socks : socks[c] # "none"}
    IN  IF Cardinality(used) >= MaxConns THEN 0 ELSE Cardinality(used) + 1

\* The socket the next accept() returns (one past Socks when all are used).
NextSock(socks) == Cardinality({c \in Socks : socks[c] # "none"}) + 1

\* accept() returns a connection; player_id and color are drawn.  A token
\* is taken to differ from those drawn before it in the session.
AcceptConnection ==
    /\ a_pc = "accept"
    /\ running
    /\ lsock = "open"
    /\ \E id \in PeerIds :
         /\ id = NewToken(csock)
         /\ a_id' = id
         /\ a_sock' = NextSock(csock)
         /\ csock' = [csock EXCEPT ![NextSock(csock)] = "open"]
    /\ a_color' = NextColor(color_index)
    /\ allocs' = Append(allocs, color_index)
    /\ color_index' = color_index + 1
    /\ a_pc' = "register"
    /\ UNCHANGED <<running, lsock, lock, connections, remote_states, local_state,
                   peerGone, out, b_pc, b_msg, b_dead, s_pc, s_buf,
                   sd_pc, ticks, nrecv, assigned, lastValid, arity>>
    /\ UNCHANGED <<s_id, s_sock>>
    /\ UNCHANGED clientvars
    /\ UNCHANGED restartvars
    /\ UNCHANGED linkvars

\* accept() and uuid.uuid4().hex[:8] with nothing taken for granted about
\* the token: any token of the session's range may be drawn again.
AcceptAnyToken ==
    /\ a_pc = "accept"
    /\ running
    /\ lsock = "open"
    /\ NextSock(csock) \in Socks
    /\ \E id \in PeerIds : a_id' = id
    /\ a_sock' = NextSock(csock)
    /\ csock' = [csock EXCEPT ![NextSock(csock)] = "open"]
    /\ a_pc' = "color"
    /\ UNCHANGED <<running, lsock, lock, color_index, connections, remote_states,
                   local_state, peerGone, out, a_color, b_pc, b_msg, b_dead,
                   s_pc, s_buf, s_id, s_sock, allocs, sd_pc, ticks, nrecv,
                   assigned, lastValid, arity>>
    /\ UNCHANGED clientvars
    /\ UNCHANGED restartvars
    /\ UNCHANGED linkvars

\* _next_color() in the accept loop, which does not hold the lock: the
\* palette entry at self._color_index is read ...
AcceptReadIndex ==
    /\ a_pc = "color"
    /\ a_color' = NextColor(color_index)
    /\ allocs' = Append(allocs, color_index)
    /\ a_pc' = "increment"
    /\ UNCHANGED <<running, lsock, lock, color_index, connections, remote_states,
                   local_state, csock, peerGone, out, a_id, a_sock, b_pc, b_msg,
                   b_dead, s_pc, s_buf, s_id, s_sock, sd_pc, ticks, nrecv,
                   assigned, lastValid, arity>>
    /\ UNCHANGED clientvars
    /\ UNCHANGED restartvars
    /\ UNCHANGED linkvars

\* ... and self._color_index += 1 follows as a later step.
AcceptIncrement ==
    /\ a_pc = "increment"
    /\ color_index' = color_index + 1
    /\ a_pc' = "register"
    /\ UNCHANGED <<running, lsock, lock, connections, remote_states, local_state,
                   csock, peerGone, out, a_id, a_color, a_sock, b_pc, b_msg,
                   b_dead, s_pc, s_buf, s_id, s_sock, allocs, sd_pc, ticks, nrecv,
                   assigned, lastValid, arity>>
    /\ UNCHANGED clientvars
    /\ UNCHANGED restartvars
    /\ UNCHANGED linkvars

\* while self._running fails, or accept() raises on the closed socket.
AcceptExit ==
    /\ a_pc = "accept"
    /\ ~running
    /\ a_pc' = "exit"
    /\ UNCHANGED <<running, lsock, lock, color_index, connections, remote_states,
                   local_state, csock, peerGone, out, a_id, a_color, b_pc, b_msg,
                   b_dead, s_pc, s_buf, sd_pc, ticks, nrecv, 
                   assigned, lastValid, arity>>
    /\ UNCHANGED <<a_sock, s_id, s_sock, allocs>>
    /\ UNCHANGED clientvars
    /\ UNCHANGED restartvars
    /\ UNCHANGED linkvars

\* with self._lock: both dicts get the new peer's entry.
AcceptRegister ==
    /\ a_pc = "register"
    /\ lock = "free"
    /\ connections' = DictSet(connections, a_id, ClientRecord(a_sock, a_color))
    /\ remote_states' = DictSet(remote_states, a_id,
                                TankSnapshot(a_id, <<0, 0>>, 0, a_color))
    /\ a_pc' = "assign"
    /\ UNCHANGED <<running, lsock, lock, color_index, local_state, csock, peerGone,
                   out, a_id, a_color, b_pc, b_msg, b_dead, s_pc, s_buf,
                   sd_pc, ticks, nrecv, assigned, lastValid, arity>>
    /\ UNCHANGED <<a_sock, s_id, s_sock, allocs>>
    /\ UNCHANGED clientvars
    /\ UNCHANGED restartvars
    /\ UNCHANGED linkvars

\* client_sock.sendall(assign): written and the session spawned, or OSError.
AcceptSendAssign ==
    /\ a_pc = "assign"
    /\ \E ok \in WriteOutcomes(a_sock) :
         IF ok
         THEN /\ out' = [out EXCEPT ![a_sock] = Append(@, "assign")]
              /\ assigned' = [assigned EXCEPT ![a_sock] = a_color]
              /\ s_pc' = [s_pc EXCEPT ![a_sock] = "start"]
              /\ s_id' = [s_id EXCEPT ![a_sock] = a_id]
              /\ a_pc' = "accept"
         ELSE /\ a_pc' = "remove"
              /\ UNCHANGED <<out, assigned, s_pc, s_id>>
    /\ UNCHANGED <<running, lsock, lock, color_index, connections, remote_states,
                   local_state, csock, peerGone, a_id, a_color, b_pc, b_msg,
                   b_dead, s_buf, sd_pc, ticks, nrecv, 
                   lastValid, arity>>
    /\ UNCHANGED <<a_sock, s_sock, allocs>>
    /\ UNCHANGED clientvars
    /\ UNCHANGED restartvars
    /\ UNCHANGED linkvars

\* except OSError: self._remove_client(player_id); continue
AcceptRemove ==
    /\ a_pc = "remove"
    /\ RemoveClient(a_id)
    /\ a_pc' = "accept"
    /\ UNCHANGED <<running, lsock, lock, color_index, local_state, peerGone, out,
                   a_id, a_color, b_pc, b_msg, b_dead, s_pc, s_buf,
                   sd_pc, ticks, nrecv, assigned, lastValid, arity>>
    /\ UNCHANGED <<a_sock, s_id, s_sock, allocs>>
    /\ UNCHANGED clientvars
    /\ UNCHANGED restartvars
    /\ UNCHANGED linkvars

\* --------------------------------------------------------- ingest session
\* The arity test written as len(position) < 2: longer lists pass.
HandleMessage_AtLeastTwo(line) ==
    IF line.form = "badjson" THEN "return"
    ELSE IF line.form # "object" THEN "raise"
    ELSE IF line.type # "update" THEN "return"
    ELSE IF ~(line.position.t = "list" /\ Len(line.position.l) >= 2) THEN "return"
    ELSE IF ~IsNumber(line.angle) THEN "return"
    ELSE "store"

\* _handle_message up to the lock: "return" (the line is dropped), "raise"
\* (payload.get on a value that is no dict: AttributeError) or "store".
HandleMessage(line) ==
    IF line.form = "badjson" THEN "return"
    ELSE IF line.form # "object" THEN "raise"
    ELSE IF line.type # "update" THEN "return"
    ELSE IF ~(line.position.t = "list" /\ Len(line.position.l) = 2) THEN "return"
    ELSE IF ~IsNumber(line.angle) THEN "return"
    ELSE "store"

\* Every update allocates a color, as for a peer seen for the first time.
UpsertColor_Fresh(states, p, idx) == NextColor(idx)

\* The color of the snapshot stored: the stored one, or a fresh one.
UpsertColor(states, p, idx) ==
    IF DictHas(states, p) THEN DictGet(states, p).color ELSE NextColor(idx)

\* float(position[0]), float(position[1]) and float(angle) all return.
FloatsReturn(line) ==
    /\ CanFloat(line.position.l[1])
    /\ CanFloat(line.position.l[2])
    /\ CanFloat(line.angle)

\* An ingest that validates the update and stores nothing.
StoredStates_Dropped(states, p, line, idx) == states

\* self._remote_states[player_id] = TankSnapshot(...)
StoredStates(states, p, line, idx) ==
    DictSet(states, p,
            TankSnapshot(p,
                         <<FloatOf(line.position.l[1]), FloatOf(line.position.l[2])>>,
                         FloatOf(line.angle),
                         UpsertColor(states, p, idx)))

\* The line of the buffer that _client_loop handles next.
NextLine(buf) == Head(buf)

RestOfBuffer(buf) == Tail(buf)

\* The thread starts: self._connections.get(player_id), read without the
\* lock, then reaches the loop (or returns when the entry is gone).
SessionStart(c) ==
    /\ s_pc[c] = "start"
    /\ IF DictHas(connections, s_id[c])
       THEN /\ s_pc' = [s_pc EXCEPT ![c] = "recv"]
            /\ s_sock' = [s_sock EXCEPT ![c] = DictGet(connections, s_id[c]).socket]
       ELSE /\ s_pc' = [s_pc EXCEPT ![c] = "returned"]
            /\ UNCHANGED s_sock
    /\ UNCHANGED <<running, lsock, lock, color_index, connections, remote_states,
                   local_state, csock, peerGone, out, a_pc, a_id, a_color, b_pc,
                   b_msg, b_dead, s_buf, sd_pc, ticks, nrecv,
                   assigned, lastValid, arity>>
    /\ UNCHANGED <<a_sock, s_id, allocs>>
    /\ UNCHANGED clientvars
    /\ UNCHANGED restartvars
    /\ UNCHANGED linkvars

\* while self._running fails at the head of the loop.
SessionStop(c) ==
    /\ s_pc[c] = "recv"
    /\ ~running
    /\ s_pc' = [s_pc EXCEPT ![c] = "cleanup"]
    /\ UNCHANGED <<running, lsock, lock, color_index, connections, remote_states,
                   local_state, csock, peerGone, out, a_pc, a_id, a_color, b_pc,
                   b_msg, b_dead, s_buf, sd_pc, ticks, nrecv,
                   assigned, lastValid, arity>>
    /\ UNCHANGED <<a_sock, s_id, s_sock, allocs>>
    /\ UNCHANGED clientvars
    /\ UNCHANGED restartvars
    /\ UNCHANGED linkvars

\* sock.recv(4096) returns data holding one or more complete lines.
SessionRecvData(c) ==
    /\ s_pc[c] = "recv"
    /\ running
    /\ csock[s_sock[c]] = "open"
    /\ ~peerGone[s_sock[c]]
    /\ nrecv < MaxFrames
    /\ \E n \in 1..MaxFrames :
         /\ nrecv + n <= MaxFrames
         /\ \E chunk \in [1..n -> HostFrames] :
              /\ s_buf' = [s_buf EXCEPT ![c] = chunk]
              /\ nrecv' = nrecv + n
    /\ s_pc' = [s_pc EXCEPT ![c] = "lines"]
    /\ UNCHANGED <<running, lsock, lock, color_index, connections, remote_states,
                   local_state, csock, peerGone, out, a_pc, a_id, a_color, b_pc,
                   b_msg, b_dead, sd_pc, ticks, assigned,
                   lastValid, arity>>
    /\ UNCHANGED <<a_sock, s_id, s_sock, allocs>>
    /\ UNCHANGED clientvars
    /\ UNCHANGED restartvars
    /\ UNCHANGED linkvars

\* recv() returns b"" (the peer closed) or raises OSError (the socket was
\* closed here, or the connection was reset): the loop ends.
SessionRecvEnd(c) ==
    /\ s_pc[c] = "recv"
    /\ csock[s_sock[c]] = "closed" \/ peerGone[s_sock[c]]
    /\ s_pc' = [s_pc EXCEPT ![c] = "cleanup"]
    /\ UNCHANGED <<running, lsock, lock, color_index, connections, remote_states,
                   local_state, csock, peerGone, out, a_pc, a_id, a_color, b_pc,
                   b_msg, b_dead, s_buf, sd_pc, ticks, nrecv, 
                   assigned, lastValid, arity>>
    /\ UNCHANGED <<a_sock, s_id, s_sock, allocs>>
    /\ UNCHANGED clientvars
    /\ UNCHANGED restartvars
    /\ UNCHANGED linkvars

\* One line of the buffer: skipped when blank, else _handle_message.  An
\* exception that is no OSError leaves the loop through finally.
SessionLine(c) ==
    /\ s_pc[c] = "lines"
    /\ LET line == NextLine(s_buf[c])
           rest == RestOfBuffer(s_buf[c])
           res == IF line.form = "blank" THEN "return" ELSE HandleMessage(line)
           stored == res = "store" /\ FloatsReturn(line)
           raises == res = "raise" \/ (res = "store" /\ ~FloatsReturn(line))
       IN  /\ res = "store" => lock = "free"
           /\ remote_states' =
                IF stored THEN StoredStates(remote_states, s_id[c], line, color_index)
                ELSE remote_states
           /\ color_index' =
                IF res = "store" /\ ~DictHas(remote_states, s_id[c])
                THEN color_index + 1 ELSE color_index
           /\ allocs' =
                IF res = "store" /\ ~DictHas(remote_states, s_id[c])
                THEN Append(allocs, color_index) ELSE allocs
           /\ s_pc' = [s_pc EXCEPT ![c] =
                         IF raises THEN "cleanup"
                         ELSE IF rest = <<>> THEN "recv" ELSE "lines"]
           /\ s_buf' = [s_buf EXCEPT ![c] = IF raises THEN <<>> ELSE rest]
           /\ lastValid' =
                IF WellFormedUpdate(line)
                THEN [lastValid EXCEPT ![c] =
                        [position |-> <<line.position.l[1].n, line.position.l[2].n>>,
                         angle |-> line.angle.n]]
                ELSE lastValid
           /\ arity' = [arity EXCEPT ![c] =
                         IF WrongArityUpdate(line) THEN "dropped"
                         ELSE IF stored /\ WellFormedUpdate(line) /\ arity[c] = "dropped"
                         THEN "recovered" ELSE "none"]
    /\ UNCHANGED <<running, lsock, lock, connections, local_state, csock, peerGone,
                   out, a_pc, a_id, a_color, b_pc, b_msg, b_dead, sd_pc,
                   ticks, nrecv, assigned>>
    /\ UNCHANGED <<a_sock, s_id, s_sock>>
    /\ UNCHANGED clientvars
    /\ UNCHANGED restartvars
    /\ UNCHANGED linkvars

\* finally: self._remove_client(player_id)
SessionCleanup(c) ==
    /\ s_pc[c] = "cleanup"
    /\ RemoveClient(s_id[c])
    /\ s_pc' = [s_pc EXCEPT ![c] = "done"]
    /\ UNCHANGED <<running, lsock, lock, color_index, local_state, peerGone, out,
                   a_pc, a_id, a_color, b_pc, b_msg, b_dead, s_buf, sd_pc,
                   ticks, nrecv, assigned, lastValid, arity>>
    /\ UNCHANGED <<a_sock, s_id, s_sock, allocs>>
    /\ UNCHANGED clientvars
    /\ UNCHANGED restartvars
    /\ UNCHANGED linkvars

\* --------------------------------------------------------- broadcast loop
\* _build_state_message: the snapshots of the message, <<>> for None.
BuildStateMessage(states, local) == DictValues(states) \o local

\* A loop that writes whatever _build_state_message returns.
HasMessage_Always(tanks) == TRUE

\* if not states: return None, and if message: in the loop.
HasMessage(tanks) == tanks # <<>>

\* One tick up to the encoded message: while self._running, then
\* _build_state_message() under the lock; an empty list is no message
\* and the loop sleeps.
BroadcastTick ==
    /\ b_pc = "head"
    /\ lock = "free"
    /\ IF running
       THEN /\ ticks < MaxTicks
            /\ ticks' = ticks + 1
            /\ b_msg' = BuildStateMessage(remote_states, local_state)
            /\ b_pc' = IF HasMessage(b_msg') THEN "encoded" ELSE "head"
       ELSE /\ b_pc' = "exit"
            /\ UNCHANGED <<ticks, b_msg>>
    /\ UNCHANGED <<running, lsock, lock, color_index, connections, remote_states,
                   local_state, csock, peerGone, out, a_pc, a_id, a_color,
                   b_dead, s_pc, s_buf, sd_pc, nrecv, assigned,
                   lastValid, arity>>
    /\ UNCHANGED <<a_sock, s_id, s_sock, allocs>>
    /\ UNCHANGED clientvars
    /\ UNCHANGED restartvars
    /\ UNCHANGED linkvars

\* dead_clients after the pass over self._connections.items(): the keys, in
\* the dict's order, whose sendall raised.
DeadClients(conns, sent) == SelectSeq(DictKeys(conns), LAMBDA p : ~sent[p])

\* The pass, made with the lock held: sendall(encoded) on every registered
\* socket.  With no dead client the lock is released and the loop sleeps.
\* Otherwise self._remove_client(dead_clients[0]) runs "with self._lock" in
\* the thread that holds the lock: the acquire never returns.
BroadcastPass ==
    /\ b_pc = "encoded"
    /\ lock = "free"
    /\ \E sent \in [DictKeySet(connections) -> BOOLEAN] :
         /\ \A p \in DictKeySet(connections) :
              sent[p] \in WriteOutcomes(DictGet(connections, p).socket)
         /\ out' = [c \in Socks |->
                      IF \E p \in DictKeySet(connections) :
                           DictGet(connections, p).socket = c /\ sent[p]
                      THEN Append(out[c], "state") ELSE out[c]]
         /\ b_dead' = DeadClients(connections, sent)
    /\ IF b_dead' = <<>>
       THEN /\ b_pc' = "head"
            /\ b_msg' = <<>>
            /\ UNCHANGED lock
       ELSE /\ b_pc' = "blocked"
            /\ lock' = "broadcast"
            /\ UNCHANGED b_msg
    /\ UNCHANGED <<running, lsock, color_index, connections, remote_states,
                   local_state, csock, peerGone, a_pc, a_id, a_color,
                   s_pc, s_buf, sd_pc, ticks, nrecv, assigned, lastValid, arity>>
    /\ UNCHANGED <<a_sock, s_id, s_sock, allocs>>
    /\ UNCHANGED clientvars
    /\ UNCHANGED restartvars
    /\ UNCHANGED linkvars

\* ------------------------------------------------------------ host steps
AcceptLoop ==
    \/ AcceptConnection
    \/ AcceptExit
    \/ AcceptRegister
    \/ AcceptSendAssign
    \/ AcceptRemove

ClientLoop(c) ==
    \/ SessionStart(c)
    \/ SessionStop(c)
    \/ SessionRecvData(c)
    \/ SessionRecvEnd(c)
    \/ SessionLine(c)
    \/ SessionCleanup(c)

BroadcastLoop ==
    \/ BroadcastTick
    \/ BroadcastPass

HostNext ==
    \/ Start
    \/ ShutdownBegin
    \/ ShutdownLocked
    \/ UpdateLocalState
    \/ AcceptLoop
    \/ BroadcastLoop
    \/ \E c \in Socks : ClientLoop(c)
    \/ \E c \in Socks : PeerClose(c)


\* ------------------------------------------------------ get_remote_states
\* get_remote_states(exclude_id): a copy of the table, without exclude_id
\* when one is given (0: None).
GetRemoteStates(states, exclude_id) ==
    IF exclude_id # 0 /\ DictHas(states, exclude_id)
    THEN DictPop(states, exclude_id)
    ELSE states


\* ------------------------------------------------------------ peer client
\* Lines the client reads: an assign message, state messages, and lines that
\* are no message.  A tank entry holds JSON values; player_id 0 stands for a
\* missing (or empty) player_id.
JMissing == [t |-> "missing", n |-> 0, l |-> <<>>]   \* the key is absent

Tank(id, pos, ang, col) == [player_id |-> id, position |-> pos, angle |-> ang, color |-> col]

ClientFrame(form, type, id, col, tanks) ==
    [form |-> form, type |-> type, player_id |-> id, color |-> col, tanks |-> tanks]

JColor(r, g, b) == JList(<<JNum(r), JNum(g), JNum(b)>>)

Orange == JColor(255, 159, 67)

GoodTank(id) ==
    IF id = 1 THEN Tank(1, JList(<<JNum(1), JNum(2)>>), JNum(90), Orange)
    ELSE Tank(id, JList(<<JNum(3), JNum(4)>>), JNum(45), Orange)

StateFrame(tanks) == ClientFrame("object", "state", 0, JMissing, tanks)

\* The assign message of the first peer of a session: token 1, PLAYER_COLORS[0].
AssignFrame == ClientFrame("object", "assign", 1, JColor(46, 196, 182), <<>>)

TankLists ==
    { <<GoodTank(1), GoodTank(2)>>,
      <<GoodTank(1)>>,
      <<>>,
      <<Tank(1, JMissing, JMissing, JMissing), GoodTank(2)>>,
      <<Tank(1, JList(<<JNum(5)>>), JNum(90), Orange), GoodTank(2)>>,
      <<Tank(0, JList(<<JNum(5)>>), JNum(90), Orange), GoodTank(2)>> }

ClientFrames ==
    { StateFrame(t) : t \in TankLists }
    \cup { AssignFrame,
           ClientFrame("badjson", "", 0, JMissing, <<>>),
           ClientFrame("nonobject", "", 0, JMissing, <<>>),
           ClientFrame("blank", "", 0, JMissing, <<>>) }

\* Python's truth test of a JSON value ("x or default").
Falsy(v) ==
    \/ v.t \in {"missing", "null"}
    \/ v.t = "list" /\ v.l = <<>>
    \/ v.t \in {"num", "bool"} /\ v.n = 0

\* int(v) returns.
CanInt(v) == v.t \in {"num", "bool", "numstr"}

DefaultColor == JColor(46, 196, 182)

\* The fields of one tank entry after the defaults of _receiver_loop.
TankPosition(tank) == IF Falsy(tank.position) THEN JList(<<JNum(0), JNum(0)>>) ELSE tank.position

TankAngle(tank) == IF tank.angle.t = "missing" THEN JNum(0) ELSE tank.angle

TankColor(tank) == IF Falsy(tank.color) THEN DefaultColor ELSE tank.color

\* TankSnapshot(...) of an entry is built without IndexError, ValueError or TypeError.
TankBuilds(tank) ==
    /\ TankPosition(tank).t = "list" /\ Len(TankPosition(tank).l) >= 2
    /\ CanFloat(TankPosition(tank).l[1]) /\ CanFloat(TankPosition(tank).l[2])
    /\ CanFloat(TankAngle(tank))
    /\ TankColor(tank).t = "list" /\ Len(TankColor(tank).l) >= 3
    /\ \A i \in 1..3 : CanInt(TankColor(tank).l[i])

TankBuilt(tank) ==
    TankSnapshot(tank.player_id,
                 <<FloatOf(TankPosition(tank).l[1]), FloatOf(TankPosition(tank).l[2])>>,
                 FloatOf(TankAngle(tank)),
                 <<TankColor(tank).l[1].n, TankColor(tank).l[2].n, TankColor(tank).l[3].n>>)

\* The player_ids a state message lists.
ListedIds(tanks) == { tanks[i].player_id : i \in 1..Len(tanks) } \ {0}

\* connect(): assign_payload.get("color", [46, 196, 182])
AssignColor(line) == IF line.color.t = "missing" THEN DefaultColor ELSE line.color

\* A state message merged into the table, entry by entry.
RECURSIVE MergedInto(_, _, _)
MergedInto(old, updated, n) ==
    IF n = 0 THEN old
    ELSE DictSet(MergedInto(old, updated, n - 1), updated[n].key, updated[n].val)

StoredTable_Merged(old, updated) == MergedInto(old, updated, Len(updated))

\* self._remote_states = updated
StoredTable(old, updated) == updated

ClientInit ==
    /\ c_socket = "none"
    /\ c_running = FALSE
    /\ c_buffer = <<>>
    /\ c_remote = <<>>
    /\ c_lock = "free"
    /\ c_player_id = 0
    /\ c_color = <<>>
    /\ c_conn = "idle"
    /\ c_pc = "none"
    /\ c_tanks = <<>>
    /\ c_i = 0
    /\ c_updated = <<>>
    /\ c_gone = FALSE
    /\ c_nrecv = 0
    /\ c_view = <<>>
    /\ c_fresh = FALSE
    /\ c_last = <<>>
    /\ c_sent = {<<>>}

\* connect() up to the blocking read: the socket is stored, the flag set.
\* One receive loop is modelled: a connect() after close() is taken once
\* the loop of the earlier connection has ended.
ConnectOpen ==
    /\ c_conn = "idle"
    /\ c_socket = "none"
    /\ c_pc \notin {"loop", "apply"}
    /\ c_socket' = "open"
    /\ c_running' = TRUE
    /\ c_gone' = FALSE
    /\ c_conn' = "handshake"
    /\ UNCHANGED <<c_buffer, c_remote, c_lock, c_player_id, c_color, c_pc, c_tanks,
                   c_i, c_updated, c_nrecv, c_view, c_fresh, c_last, c_sent>>
    /\ UNCHANGED hostvars
    /\ UNCHANGED restartvars
    /\ UNCHANGED linkvars

\* The thread that is inside _read_message_blocking with an open socket.
Reading ==
    /\ c_socket = "open"
    /\ \/ c_conn = "handshake"
       \/ c_conn = "idle" /\ c_pc = "loop" /\ c_running

\* sock.recv(4096) returns data holding complete lines.
ReceiveData ==
    /\ Reading
    /\ ~c_gone
    /\ c_buffer = <<>>
    /\ \E n \in 1..MaxClientFrames :
         /\ c_nrecv + n <= MaxClientFrames
         /\ \E chunk \in [1..n -> ClientFrames] :
              /\ c_buffer' = chunk
              /\ c_nrecv' = c_nrecv + n
    /\ UNCHANGED <<c_socket, c_running, c_remote, c_lock, c_player_id, c_color,
                   c_conn, c_pc, c_tanks, c_i, c_updated, c_gone, c_view, c_fresh,
                   c_last, c_sent>>
    /\ UNCHANGED hostvars
    /\ UNCHANGED restartvars
    /\ UNCHANGED linkvars

\* recv() returns b"" or raises OSError: self.close(), and None is returned;
\* in connect() that raises RuntimeError.
ReceiveEnd ==
    /\ Reading
    /\ c_gone
    /\ c_buffer = <<>>
    /\ c_running' = FALSE
    /\ c_socket' = "none"
    /\ c_conn' = "idle"
    /\ UNCHANGED <<c_buffer, c_remote, c_lock, c_player_id, c_color, c_pc, c_tanks,
                   c_i, c_updated, c_gone, c_nrecv, c_view, c_fresh, c_last, c_sent>>
    /\ UNCHANGED hostvars
    /\ UNCHANGED restartvars
    /\ UNCHANGED linkvars

\* connect() reads its first line: an assign message starts the receive loop,
\* anything else raises and leaves the socket and the flag as they are.
ConnectLine ==
    /\ c_conn = "handshake"
    /\ c_buffer # <<>>
    /\ LET line == Head(c_buffer)
       IN  /\ c_buffer' = Tail(c_buffer)
           /\ IF line.form = "blank"
              THEN UNCHANGED <<c_conn, c_player_id, c_color, c_pc>>
              ELSE IF line.form = "object" /\ line.type = "assign"
              THEN /\ c_player_id' = line.player_id
                   /\ c_color' = <<AssignColor(line).l[1].n, AssignColor(line).l[2].n,
                                   AssignColor(line).l[3].n>>
                   /\ c_pc' = "loop"
                   /\ c_conn' = "idle"
              ELSE /\ c_conn' = "idle"
                   /\ UNCHANGED <<c_player_id, c_color, c_pc>>
    /\ UNCHANGED <<c_socket, c_running, c_remote, c_lock, c_tanks, c_i, c_updated,
                   c_gone, c_nrecv, c_view, c_fresh, c_last, c_sent>>
    /\ UNCHANGED hostvars
    /\ UNCHANGED restartvars
    /\ UNCHANGED linkvars

\* while self._running and self.socket fails.
ReceiverExit ==
    /\ c_pc = "loop"
    /\ ~c_running \/ c_socket = "none"
    /\ c_pc' = "exit"
    /\ UNCHANGED <<c_socket, c_running, c_buffer, c_remote, c_lock, c_player_id,
                   c_color, c_conn, c_tanks, c_i, c_updated, c_gone, c_nrecv,
                   c_view, c_fresh, c_last, c_sent>>
    /\ UNCHANGED hostvars
    /\ UNCHANGED restartvars
    /\ UNCHANGED linkvars

\* What the loop does with one line, up to the lock: "died" (an exception
\* ends the thread), "skip" (continue) or "state".
ReceiverOutcome(line) ==
    IF line.form = "blank" THEN "skip"
    ELSE IF line.form # "object" THEN "died"
    ELSE IF line.type # "state" THEN "skip"
    ELSE "state"

\* One pass of the loop over a buffered line, up to taking the lock.
ReceiverLine ==
    /\ c_pc = "loop"
    /\ c_conn = "idle"
    /\ c_running
    /\ c_socket = "open"
    /\ c_buffer # <<>>
    /\ LET line == Head(c_buffer)
           res == ReceiverOutcome(line)
       IN  /\ c_buffer' = Tail(c_buffer)
           /\ IF res = "state"
              THEN /\ c_lock = "free"
                   /\ c_lock' = "receiver"
                   /\ c_pc' = "apply"
                   /\ c_tanks' = line.tanks
              ELSE /\ c_pc' = IF res = "died" THEN "died" ELSE "loop"
                   /\ UNCHANGED <<c_lock, c_tanks>>
    /\ UNCHANGED <<c_socket, c_running, c_remote, c_player_id, c_color, c_conn, c_i,
                   c_updated, c_gone, c_nrecv, c_view, c_fresh, c_last, c_sent>>
    /\ UNCHANGED hostvars
    /\ UNCHANGED restartvars
    /\ UNCHANGED linkvars

\* for tank in tanks: one entry; an exception leaves the with block.
ReceiverEntry ==
    /\ c_pc = "apply"
    /\ c_i < Len(c_tanks)
    /\ LET tank == c_tanks[c_i + 1]
       IN  IF tank.player_id = 0
           THEN c_i' = c_i + 1 /\ UNCHANGED <<c_updated, c_pc, c_lock, c_tanks>>
           ELSE IF TankBuilds(tank)
           THEN /\ c_i' = c_i + 1
                /\ c_updated' = DictSet(c_updated, tank.player_id, TankBuilt(tank))
                /\ UNCHANGED <<c_pc, c_lock, c_tanks>>
           ELSE /\ c_pc' = "died"
                /\ c_lock' = "free"
                /\ c_i' = 0
                /\ c_tanks' = <<>>
                /\ c_updated' = <<>>
    /\ UNCHANGED <<c_socket, c_running, c_buffer, c_remote, c_player_id, c_color,
                   c_conn, c_gone, c_nrecv, c_view, c_fresh, c_last, c_sent>>
    /\ UNCHANGED hostvars
    /\ UNCHANGED restartvars
    /\ UNCHANGED linkvars

\* self._remote_states = updated, and the lock is released.
ReceiverStore ==
    /\ c_pc = "apply"
    /\ c_i = Len(c_tanks)
    /\ c_remote' = StoredTable(c_remote, c_updated)
    /\ c_lock' = "free"
    /\ c_pc' = "loop"
    /\ c_i' = 0
    /\ c_tanks' = <<>>
    /\ c_updated' = <<>>
    /\ c_fresh' = FALSE
    /\ c_last' = c_tanks
    /\ c_sent' = c_sent \cup {c_updated}
    /\ UNCHANGED <<c_socket, c_running, c_buffer, c_player_id, c_color, c_conn,
                   c_gone, c_nrecv, c_view>>
    /\ UNCHANGED hostvars
    /\ UNCHANGED restartvars
    /\ UNCHANGED linkvars

\* close()
Close ==
    /\ c_conn = "idle"
    /\ c_running' = FALSE
    /\ c_socket' = "none"
    /\ UNCHANGED <<c_buffer, c_remote, c_lock, c_player_id, c_color, c_conn, c_pc,
                   c_tanks, c_i, c_updated, c_gone, c_nrecv, c_view, c_fresh,
                   c_last, c_sent>>
    /\ UNCHANGED hostvars
    /\ UNCHANGED restartvars
    /\ UNCHANGED linkvars

\* send_snapshot(): the update is written, or OSError and self.close().
SendSnapshot ==
    /\ c_conn = "idle"
    /\ c_socket = "open"
    /\ c_running
    /\ \E ok \in (IF c_gone THEN {TRUE, FALSE} ELSE {TRUE}) :
         IF ok THEN UNCHANGED <<c_running, c_socket>>
         ELSE c_running' = FALSE /\ c_socket' = "none"
    /\ UNCHANGED <<c_buffer, c_remote, c_lock, c_player_id, c_color, c_conn, c_pc,
                   c_tanks, c_i, c_updated, c_gone, c_nrecv, c_view, c_fresh,
                   c_last, c_sent>>
    /\ UNCHANGED hostvars
    /\ UNCHANGED restartvars
    /\ UNCHANGED linkvars

\* get_remote_states(exclude_id) of the render loop.
ClientGetRemoteStates ==
    /\ c_conn = "idle"
    /\ c_lock = "free"
    /\ \E ex \in {0, c_player_id} : c_view' = GetRemoteStates(c_remote, ex)
    /\ c_fresh' = TRUE
    /\ UNCHANGED <<c_socket, c_running, c_buffer, c_remote, c_lock, c_player_id,
                   c_color, c_conn, c_pc, c_tanks, c_i, c_updated, c_gone, c_nrecv,
                   c_last, c_sent>>
    /\ UNCHANGED hostvars
    /\ UNCHANGED restartvars
    /\ UNCHANGED linkvars

\* The host closes the connection.
HostClose ==
    /\ c_socket = "open"
    /\ ~c_gone
    /\ c_gone' = TRUE
    /\ UNCHANGED <<c_socket, c_running, c_buffer, c_remote, c_lock, c_player_id,
                   c_color, c_conn, c_pc, c_tanks, c_i, c_updated, c_nrecv, c_view,
                   c_fresh, c_last, c_sent>>
    /\ UNCHANGED hostvars
    /\ UNCHANGED restartvars
    /\ UNCHANGED linkvars

ClientNext ==
    \/ ConnectOpen
    \/ ConnectLine
    \/ ReceiveData
    \/ ReceiveEnd
    \/ ReceiverExit
    \/ ReceiverLine
    \/ ReceiverEntry
    \/ ReceiverStore
    \/ Close
    \/ SendSnapshot
    \/ ClientGetRemoteStates
    \/ HostClose

\* ------------------------------------------- a host with two peer clients
\* The tuples of PLAYER_COLORS that the colours of Palette stand for.
PlayerColors ==
    << <<46, 196, 182>>, <<255, 159, 67>>, <<255, 107, 129>>,
       <<84, 160, 255>>, <<129, 236, 236>>, <<255, 234, 167>> >>

ColorTuple(col) == PlayerColors[((col - 1) % Len(PlayerColors)) + 1]

\* One entry of tanks_payload, as the client decodes it.
EncodedTank(snapshot) ==
    Tank(snapshot.player_id,
         JList(<<JNum(snapshot.position[1]), JNum(snapshot.position[2])>>),
         JNum(snapshot.angle),
         JColor(ColorTuple(snapshot.color)[1], ColorTuple(snapshot.color)[2],
                ColorTuple(snapshot.color)[3]))

\* _encode({"type": "state", "tanks": tanks_payload}) read back by _decode.
EncodedState(msg) == StateFrame([i \in 1..Len(msg) |-> EncodedTank(msg[i])])

\* The update A sends, and the pose it carries.
SentUpdate == Update(JList(<<JNum(1), JNum(2)>>), JNum(90))

\* The state after start(), the accept of B (token 1) and of A (token 2),
\* both assign messages and B's connect(): both ingest sessions and B's
\* receive loop are waiting for data, the broadcast loop is at its head.
E2EInit ==
    /\ running = TRUE
    /\ lsock = "open"
    /\ lock = "free"
    /\ color_index = 2
    /\ connections = << [key |-> 1, val |-> ClientRecord(1, Palette[1])],
                        [key |-> 2, val |-> ClientRecord(2, Palette[2])] >>
    /\ remote_states = << [key |-> 1, val |-> TankSnapshot(1, <<0, 0>>, 0, Palette[1])],
                          [key |-> 2, val |-> TankSnapshot(2, <<0, 0>>, 0, Palette[2])] >>
    /\ local_state = <<>>
    /\ csock = [c \in Socks |-> IF c \in {1, 2} THEN "open" ELSE "none"]
    /\ peerGone = [c \in Socks |-> FALSE]
    /\ out = [c \in Socks |-> IF c \in {1, 2} THEN <<"assign">> ELSE <<>>]
    /\ a_pc = "accept" /\ a_id = 2 /\ a_color = Palette[2] /\ a_sock = 2
    /\ b_pc = "head" /\ b_msg = <<>> /\ b_dead = <<>>
    /\ s_pc = [c \in Socks |-> IF c \in {1, 2} THEN "recv" ELSE "none"]
    /\ s_buf = [c \in Socks |-> <<>>]
    /\ s_id = [c \in Socks |-> IF c \in {1, 2} THEN c ELSE 0]
    /\ s_sock = [c \in Socks |-> IF c \in {1, 2} THEN c ELSE 0]
    /\ allocs = <<0, 1>>
    /\ sd_pc = "idle"
    /\ ticks = 0 /\ nrecv = 0
    /\ assigned = [c \in Socks |-> IF c \in {1, 2} THEN Palette[c] ELSE 0]
    /\ lastValid = [c \in Socks |-> DefaultPose]
    /\ arity = [c \in Socks |-> "none"]
    /\ c_socket = "open"
    /\ c_running = TRUE
    /\ c_buffer = <<>>
    /\ c_remote = <<>>
    /\ c_lock = "free"
    /\ c_player_id = 1
    /\ c_color = ColorTuple(Palette[1])
    /\ c_conn = "idle"
    /\ c_pc = "loop"
    /\ c_tanks = <<>>
    /\ c_i = 0
    /\ c_updated = <<>>
    /\ c_gone = FALSE
    /\ c_nrecv = 1
    /\ c_view = <<>>
    /\ c_fresh = FALSE
    /\ c_last = <<>>
    /\ c_sent = {<<>>}
    /\ LinkInit
    /\ RestartInit

\* A's send_snapshot(): the update is written to A's connection.
E2ESend ==
    /\ ~e_sent
    /\ e_sent' = TRUE
    /\ toHost' = Append(toHost, SentUpdate)
    /\ UNCHANGED toClient
    /\ UNCHANGED hostvars
    /\ UNCHANGED clientvars
    /\ UNCHANGED restartvars

\* sock.recv(4096) of A's ingest session returns what A has written.
E2ESessionRecv ==
    /\ s_pc[2] = "recv"
    /\ running
    /\ toHost # <<>>
    /\ s_buf' = [s_buf EXCEPT ![2] = toHost]
    /\ s_pc' = [s_pc EXCEPT ![2] = "lines"]
    /\ toHost' = <<>>
    /\ UNCHANGED <<running, lsock, lock, color_index, connections, remote_states,
                   local_state, csock, peerGone, out, a_pc, a_id, a_color, a_sock,
                   b_pc, b_msg, b_dead, s_id, s_sock, allocs, sd_pc, ticks, nrecv,
                   assigned, lastValid, arity>>
    /\ UNCHANGED <<toClient, e_sent>>
    /\ UNCHANGED clientvars
    /\ UNCHANGED restartvars

\* One tick of the broadcast loop up to the encoded message.
E2ETick ==
    /\ b_pc = "head"
    /\ lock = "free"
    /\ running
    /\ b_msg' = BuildStateMessage(remote_states, local_state)
    /\ b_pc' = IF HasMessage(b_msg') THEN "encoded" ELSE "head"
    /\ UNCHANGED <<running, lsock, lock, color_index, connections, remote_states,
                   local_state, csock, peerGone, out, a_pc, a_id, a_color, a_sock,
                   b_dead, s_pc, s_buf, s_id, s_sock, allocs, sd_pc, ticks, nrecv,
                   assigned, lastValid, arity>>
    /\ UNCHANGED linkvars
    /\ UNCHANGED clientvars
    /\ UNCHANGED restartvars

\* The pass with no write failing: the message goes to every registered
\* connection (A reads and drops its copy); sendall blocks while B's
\* connection is full.  No client is dead, the lock is released.
E2EPass ==
    /\ b_pc = "encoded"
    /\ lock = "free"
    /\ Len(toClient) < MaxWire
    /\ DeadClients(connections, [p \in DictKeySet(connections) |-> TRUE]) = <<>>
    /\ toClient' = Append(toClient, EncodedState(b_msg))
    /\ b_pc' = "head"
    /\ b_msg' = <<>>
    /\ UNCHANGED <<running, lsock, lock, color_index, connections, remote_states,
                   local_state, csock, peerGone, out, a_pc, a_id, a_color, a_sock,
                   b_dead, s_pc, s_buf, s_id, s_sock, allocs, sd_pc, ticks, nrecv,
                   assigned, lastValid, arity>>
    /\ UNCHANGED <<toHost, e_sent>>
    /\ UNCHANGED clientvars
    /\ UNCHANGED restartvars

\* sock.recv(4096) of B's receive loop returns what the host has written.
E2EClientRecv ==
    /\ Reading
    /\ c_buffer = <<>>
    /\ toClient # <<>>
    /\ c_buffer' = toClient
    /\ toClient' = <<>>
    /\ UNCHANGED <<c_socket, c_running, c_remote, c_lock, c_player_id, c_color,
                   c_conn, c_pc, c_tanks, c_i, c_updated, c_gone, c_nrecv, c_view,
                   c_fresh, c_last, c_sent>>
    /\ UNCHANGED <<toHost, e_sent>>
    /\ UNCHANGED hostvars
    /\ UNCHANGED restartvars

E2ENext ==
    \/ E2ESend
    \/ E2ESessionRecv
    \/ SessionLine(2)
    \/ E2ETick
    \/ E2EPass
    \/ E2EClientRecv
    \/ ReceiverLine
    \/ ReceiverEntry
    \/ ReceiverStore
    \/ ClientGetRemoteStates

\* ------------------------------------------------- start() after shutdown()
\* The listening socket a thread of run r waits on is self._socket of the
\* run the host is in, and open.
ListenOpen(r) == r = Len(prior) + 1 /\ lsock = "open"

\* A thread of an earlier run, as start() leaves it: nothing joins it.
PriorThreads ==
    [a_pc |-> a_pc, a_lsock |-> Len(prior) + 1,
     b_pc |-> b_pc, b_msg |-> b_msg, b_dead |-> b_dead]

\* start() on an instance that was started and shut down before: the flag
\* is set again, a new socket bound, and _accept_thread and
\* _broadcast_thread are overwritten with two new threads.
Restart ==
    /\ ~running
    /\ a_pc # "none"
    /\ sd_pc = "idle"
    /\ Len(prior) < MaxStarts - 1
    /\ prior' = Append(prior, PriorThreads)
    /\ running' = TRUE
    /\ lsock' = "open"
    /\ a_pc' = "accept"
    /\ b_pc' = "head"
    /\ b_msg' = <<>>
    /\ b_dead' = <<>>
    /\ UNCHANGED <<lock, color_index, connections, remote_states, local_state,
                   csock, peerGone, out, a_id, a_color, a_sock, s_pc, s_buf,
                   s_id, s_sock, allocs, sd_pc, ticks, nrecv, assigned,
                   lastValid, arity>>
    /\ UNCHANGED clientvars
    /\ UNCHANGED linkvars

\* The accept loop of an earlier run, with no peer connecting: accept() on
\* a socket that is closed raises OSError; the loop breaks if not
\* self._running, else continues and calls self._socket.accept() again.
PriorAccept(i) ==
    /\ i \in 1..Len(prior)
    /\ prior[i].a_pc = "accept"
    /\ ~ListenOpen(prior[i].a_lsock)
    /\ prior' = [prior EXCEPT ![i] =
                   IF running
                   THEN [@ EXCEPT !.a_lsock = Len(prior) + 1]
                   ELSE [@ EXCEPT !.a_pc = "exit"]]
    /\ UNCHANGED hostvars
    /\ UNCHANGED clientvars
    /\ UNCHANGED linkvars

\* One tick of the broadcast loop of an earlier run, after its sleep.
PriorBroadcastTick(i) ==
    /\ i \in 1..Len(prior)
    /\ prior[i].b_pc = "head"
    /\ lock = "free"
    /\ LET tanks == BuildStateMessage(remote_states, local_state)
       IN  prior' = [prior EXCEPT ![i] =
                       IF running
                       THEN [@ EXCEPT !.b_msg = tanks,
                                      !.b_pc = IF HasMessage(tanks)
                                               THEN "encoded" ELSE "head"]
                       ELSE [@ EXCEPT !.b_pc = "exit"]]
    /\ UNCHANGED hostvars
    /\ UNCHANGED clientvars
    /\ UNCHANGED linkvars

\* The pass of the broadcast loop of an earlier run, as BroadcastPass.
PriorBroadcastPass(i) ==
    /\ i \in 1..Len(prior)
    /\ prior[i].b_pc = "encoded"
    /\ lock = "free"
    /\ \E sent \in [DictKeySet(connections) -> BOOLEAN] :
         /\ \A p \in DictKeySet(connections) :
              sent[p] \in WriteOutcomes(DictGet(connections, p).socket)
         /\ out' = [c \in Socks |->
                      IF \E p \in DictKeySet(connections) :
                           DictGet(connections, p).socket = c /\ sent[p]
                      THEN Append(out[c], "state") ELSE out[c]]
         /\ LET dead == DeadClients(connections, sent)
            IN  IF dead = <<>>
                THEN /\ prior' = [prior EXCEPT ![i].b_pc = "head",
                                               ![i].b_msg = <<>>,
                                               ![i].b_dead = dead]
                     /\ UNCHANGED lock
                ELSE /\ prior' = [prior EXCEPT ![i].b_pc = "blocked",
                                               ![i].b_dead = dead]
                     /\ lock' = "broadcast"
    /\ UNCHANGED <<running, lsock, color_index, connections, remote_states,
                   local_state, csock, peerGone, a_pc, a_id, a_color, a_sock,
                   b_pc, b_msg, b_dead, s_pc, s_buf, s_id, s_sock, allocs,
                   sd_pc, ticks, nrecv, assigned, lastValid, arity>>
    /\ UNCHANGED clientvars
    /\ UNCHANGED linkvars

\* A host that is started, shut down and started again by one caller, with
\* no peer connecting.
RestartNext ==
    \/ Start
    \/ Restart
    \/ ShutdownBegin
    \/ ShutdownLocked
    \/ UpdateLocalState
    \/ AcceptExit
    \/ BroadcastTick
    \/ BroadcastPass
    \/ \E i \in 1..(MaxStarts - 1) :
         \/ PriorAccept(i)
         \/ PriorBroadcastTick(i)
         \/ PriorBroadcastPass(i)

\* ---------------------------------------------------------- specifications
vars == <<hostvars, clientvars, linkvars, restartvars>>

Init == HostInit /\ ClientInit /\ LinkInit /\ RestartInit

\* The host, with the collaborators that call it.
Next == HostNext

Spec == Init /\ [][Next]_vars

\* One peer client, with the lines a host can send it.
ClientSpec == Init /\ [][ClientNext]_vars

\* The accept loop and the ingest sessions of a running host whose tokens
\* may repeat, the allocation of the accept loop taken step by step.
ReuseNext ==
    \/ Start
    \/ AcceptAnyToken
    \/ AcceptReadIndex
    \/ AcceptIncrement
    \/ AcceptRegister
    \/ AcceptSendAssign
    \/ AcceptRemove
    \/ \E c \in Socks :
         \/ SessionStart(c)
         \/ SessionRecvData(c)
         \/ SessionRecvEnd(c)
         \/ SessionLine(c)
         \/ SessionCleanup(c)
    \/ \E c \in Socks : PeerClose(c)

ReuseSpec == Init /\ [][ReuseNext]_vars

RestartSpec == Init /\ [][RestartNext]_vars

\* A running host with two connected clients and no connection failure.
\* Each loop is a thread of its own that is not starved: A's ingest session,
\* the broadcast loop and B's receive loop take a step that stays possible.
E2ESpec ==
    /\ E2EInit
    /\ [][E2ENext]_vars
    /\ WF_vars(E2ESessionRecv)
    /\ WF_vars(SessionLine(2))
    /\ WF_vars(E2ETick)
    /\ WF_vars(E2EPass)
    /\ WF_vars(E2EClientRecv)
    /\ WF_vars(ReceiverLine)
    /\ WF_vars(ReceiverEntry)
    /\ WF_vars(ReceiverStore)

\* ------------------------------------------------------------ host claims
\* The step of session p that handles the first line of its buffer.
HandlesLine(p) == s_pc[p] = "lines" /\ s_buf'[p] # s_buf[p]

PoseOf(snapshot) == [position |-> snapshot.position, angle |-> snapshot.angle]

\* C1: the first message the host writes to an accepted connection is its
\* assign message; no state message precedes it.
C1_AssignFirst ==
    \A p \in PeerIds : out[p] # <<>> => out[p][1] = "assign"

\* C2: once a broadcast pass in which a write failed is over, the peers marked
\* dead are in neither dict and the tick has finished (the lock is released).
C2_DeadPeersRemoved ==
    b_dead # <<>> =>
        /\ \A i \in 1..Len(b_dead) :
             /\ ~DictHas(connections, b_dead[i])
             /\ ~DictHas(remote_states, b_dead[i])
        /\ lock = "free"
        /\ b_pc # "blocked"

\* C3: a connection-fatal error on one peer does not stop the service: every
\* operation that needs the store lock (update_local_state, a waiting
\* shutdown, a session's cleanup) can take it.  Critical sections are
\* single steps, so a lock that is not free in a state is never released.
C3_ServiceContinues ==
    /\ ENABLED UpdateLocalState
    /\ sd_pc = "lock" => ENABLED ShutdownLocked
    /\ \A p \in PeerIds : s_pc[p] = "cleanup" => ENABLED SessionCleanup(p)

\* C4: for a peer that is connected (assign written, not closed by the peer,
\* host running) and whose received lines have all been handled, the table's
\* entry holds the pose of the last well-formed update (the default pose when
\* there was none).
C4_LastWriteWins ==
    \A p \in PeerIds :
        ( /\ assigned[p] # 0
          /\ running
          /\ ~peerGone[p]
          /\ s_pc[p] \in {"recv", "done"} )
        => /\ DictHas(remote_states, p)
           /\ PoseOf(DictGet(remote_states, p)) = lastValid[p]

C6_WrongArityDropped ==
    [][\A p \in PeerIds :
         /\ (HandlesLine(p) /\ WrongArityUpdate(NextLine(s_buf[p])))
            => /\ remote_states' = remote_states
               /\ connections' = connections
               /\ csock' = csock
               /\ s_pc'[p] \in {"recv", "lines"}
         /\ (HandlesLine(p) /\ arity[p] = "dropped"
               /\ WellFormedUpdate(NextLine(s_buf[p])))
            => /\ DictHas(remote_states', p)
               /\ PoseOf(DictGet(remote_states', p)) = lastValid'[p]
               /\ arity'[p] = "recovered"]_vars

\* A well-formed update stored right after a dropped 3-element one, on a
\* connection that is still registered and open.
C6_Witness ==
    \E p \in PeerIds :
        /\ arity[p] = "recovered"
        /\ DictHas(connections, p)
        /\ csock[p] = "open"
        /\ PoseOf(DictGet(remote_states, p)) = lastValid[p]
        /\ lastValid[p] # DefaultPose

\* C7: a line that is no well-formed update is dropped without effect: the
\* table and the registry are unchanged and the session keeps running.
C7_InvalidDropped ==
    [][\A p \in PeerIds :
         (HandlesLine(p) /\ ~WellFormedUpdate(NextLine(s_buf[p])))
         => /\ remote_states' = remote_states
            /\ connections' = connections
            /\ s_pc'[p] \in {"recv", "lines"}]_vars

C11_RoundRobin ==
    \A k \in 1..Len(allocs) : allocs[k] = k - 1

\* C12: a state message is written to a connection only with a tanks list
\* that is not empty, and a tick that finds the local snapshot unset and the
\* table empty writes nothing: the loop goes to sleep without a pass.
C12_NoEmptyState ==
    [][/\ (\E c \in Socks :
             /\ out'[c] # out[c]
             /\ out'[c][Len(out'[c])] = "state")
          => b_msg # <<>>
       /\ (ticks' # ticks /\ remote_states = <<>> /\ local_state = <<>>)
          => (b_pc' = "head" /\ out' = out)]_vars

\* A tick has passed on a running host that has no local snapshot and has
\* accepted no connection.
C12_Witness ==
    /\ running
    /\ ticks > 0
    /\ b_pc = "head"
    /\ local_state = <<>>
    /\ \A c \in Socks : csock[c] = "none"

\* C13: once shutdown() has returned on a host that was started, the
\* listening socket is closed, and the registry and the remote state table
\* are empty and stay empty.
C13_ShutdownClears ==
    (a_pc # "none" /\ ~running /\ sd_pc = "idle") =>
        /\ lsock = "closed"
        /\ connections = <<>>
        /\ remote_states = <<>>

\* C17: once shutdown() has been called on a started host, nothing keeps it
\* from returning or a loop from exiting: the lock that shutdown() and every
\* session's cleanup must take is not held by a thread that never releases
\* it, and a loop that has seen the flag cleared is not stuck.
C17_CancellationEffective ==
    (a_pc # "none" /\ ~running) =>
        /\ lock = "free"
        /\ b_pc \in {"head", "encoded", "exit"}
        /\ a_pc = "accept" => ENABLED AcceptExit

\* C18: a step that reads or writes the registry or the remote state table
\* (an ingest session looking up its record, a tick building the message, a
\* pass over the registry, any change of either dict) is taken by a thread
\* that holds the lock: no other thread holds it at that step.
C18_GuardedAccess ==
    [][( \/ \E c \in Socks : s_pc[c] = "start" /\ s_pc'[c] # "start"
         \/ ticks' # ticks
         \/ b_pc = "encoded" /\ b_pc' # "encoded"
         \/ connections' # connections
         \/ remote_states' # remote_states )
       => lock = "free"]_vars

\* The player_ids the session still knows of: the one drawn last, those of
\* the sessions spawned and those in the two dicts.
KnownIds ==
    ({a_id} \cup {s_id[c] : c \in Socks} \cup DictKeySet(connections)
        \cup DictKeySet(remote_states)) \ {0}

\* C19: the player_id drawn for an accepted connection differs from every
\* player_id in the registry and from those issued earlier in the session,
\* so its registration overwrites no entry of the registry or the table.
C19_UniqueIds ==
    [][/\ a_sock' # a_sock => a_id' \notin KnownIds
       /\ (a_pc = "register" /\ a_pc' # "register")
          => (~DictHas(connections, a_id) /\ ~DictHas(remote_states, a_id))]_vars

\* C20: while the host is running and no thread is inside a lock-held
\* section, the remote state table and the registry hold the same player_ids.
C20_TablesAgree ==
    (running /\ lock = "free") =>
        DictKeySet(remote_states) = DictKeySet(connections)

\* ---------------------------------------------------------- client claims
\* C8: no content of a received frame ends the receive loop of the client: a
\* malformed line is dropped and a state message with a short position is
\* still applied, so the loop never ends by an exception.
C8_FramesNeverEndLoop == c_pc # "died"

\* C9: after a state message is applied, the remote state table holds exactly
\* the player_ids the message lists; a get_remote_states() since then returns
\* no peer the message does not list, and every get_remote_states() returns
\* the whole table of one applied message (less the excluded id), never a
\* mix of two.
C9_FullReplace ==
    /\ c_pc # "apply" => DictKeySet(c_remote) = ListedIds(c_last)
    /\ c_pc = "apply" => DictKeySet(c_updated) = ListedIds(SubSeq(c_tanks, 1, c_i))
    /\ c_fresh => DictKeySet(c_view) \subseteq ListedIds(c_last)
    /\ \E table \in c_sent : \E ex \in {0} \cup PeerIds :
         c_view = GetRemoteStates(table, ex)

\* Peer 2 was in the table of an earlier state message, the newest one lists
\* peer 1 only, and get_remote_states() has returned peer 1 without peer 2.
C9_Witness ==
    /\ c_fresh
    /\ \E table \in c_sent : DictHas(table, 2)
    /\ ListedIds(c_last) = {1}
    /\ DictKeySet(c_view) = {1}

\* C14: while no connect() has succeeded and none is in progress (this
\* includes every state after a connect() that failed), the client holds no
\* open socket and its running flag is false.
C14_FailedConnectLeavesNothing ==
    (c_conn = "idle" /\ c_pc = "none") => (c_socket = "none" /\ ~c_running)

\* C15: the disconnected state that follows a connection is terminal: once a
\* client that had connected has run close(), no later call opens a socket.
C15_ClosedIsTerminal ==
    [][(c_pc # "none" /\ c_socket = "none") => c_socket' = "none"]_vars

\* ------------------------------------------------------ end-to-end claims
\* What B's get_remote_states(exclude_id = its own id) returns holds A's
\* entry with the pose A has sent.
Delivered ==
    LET view == GetRemoteStates(c_remote, c_player_id)
    IN  /\ DictHas(view, 2)
        /\ DictGet(view, 2).position = <<1, 2>>
        /\ DictGet(view, 2).angle = 90

\* C16: with a running host, two connected clients and no connection
\* failure, once A has sent its one update, B's get_remote_states()
\* eventually holds A's player_id with the position and angle sent, and
\* keeps holding it.
C16_UpdateReachesPeer == e_sent ~> []Delivered

\* A has sent its update and B's last get_remote_states() returned it.
C16_Witness ==
    /\ e_sent
    /\ Delivered
    /\ c_fresh
    /\ DictHas(c_view, 2)
    /\ PoseOf(DictGet(c_view, 2)) = [position |-> <<1, 2>>, angle |-> 90]

\* ------------------------------------------------------- restart claims
\* The accept loops that have not left `while self._running`.
ActiveAcceptLoops ==
    (IF a_pc \in {"none", "exit"} THEN 0 ELSE 1)
    + Cardinality({i \in 1..Len(prior) : prior[i].a_pc # "exit"})

\* The broadcast loops that have not left `while self._running`.
ActiveBroadcastLoops ==
    (IF b_pc \in {"none", "exit"} THEN 0 ELSE 1)
    + Cardinality({i \in 1..Len(prior) : prior[i].b_pc # "exit"})

\* C21: over any sequence of start() and shutdown() calls on one host, at
\* most one accept loop and at most one broadcast loop are active at any
\* time; a start() after shutdown() leaves no loop of the earlier run
\* executing beside the new ones.
C21_OneLoopEach == ActiveAcceptLoops <= 1 /\ ActiveBroadcastLoops <= 1

====
